---- MODULE Spec2Model ----
(***************************************************************************)
(* A model of danillouz/tdr: the DNS wire codec (internal/dns) and the     *)
(* iterative resolver (internal/resolver).                                 *)
(*                                                                         *)
(* Bytes are the numbers 0..255.  A Go []byte and a Go string are both a   *)
(* sequence of bytes; Go's 0-based index i is the TLA+ index i + 1.  A     *)
(* slice is modelled with cap = len, which is what lookup's                *)
(* make([]byte, 512) gives.  An index or slice bound outside the slice is  *)
(* a Go run-time panic; a decode operator reports it as st = "panic".  A   *)
(* decode that would never return is reported as st = "hang".              *)
(***************************************************************************)
EXTENDS Integers, Sequences, FiniteSets, TLC

(***************************************************************************)
(* Bounds of the model.                                                    *)
(***************************************************************************)
\* Deepest nesting of Resolve calls the resolver part explores.
MaxDepth == 2
\* Most lookups one run of the resolver part performs.
MaxLookups == 4
\* Longest name the step-wise name decoder accumulates.
MaxNameb == 8

(***************************************************************************)
(* Evaluation.  "Val({ e : x \in {a} })" is e with x standing for the      *)
(* value of a: a is evaluated once, however often e uses x.                *)
(***************************************************************************)
Val(S) == CHOOSE v \in S : TRUE

(***************************************************************************)
(* Bit and byte primitives.                                                *)
(***************************************************************************)
\* Bit i of x.
Bit(x, i) == (x \div (2 ^ i)) % 2

RECURSIVE OrFrom(_, _, _)
\* Bits i..15 of x | y.
OrFrom(x, y, i) ==
    IF i > 15 THEN 0
    ELSE (IF Bit(x, i) = 1 \/ Bit(y, i) = 1 THEN 2 ^ i ELSE 0) + OrFrom(x, y, i + 1)

RECURSIVE AndFrom(_, _, _)
\* Bits i..15 of x & y.
AndFrom(x, y, i) ==
    IF i > 15 THEN 0
    ELSE (IF Bit(x, i) = 1 /\ Bit(y, i) = 1 THEN 2 ^ i ELSE 0) + AndFrom(x, y, i + 1)

\* Go's | on unsigned integers of at most 16 bits (x | 0 is x).
BitOr(a, b) ==
    Val({ IF x = 0 THEN y ELSE IF y = 0 THEN x ELSE OrFrom(x, y, 0) : x \in {a}, y \in {b} })

\* Go's & on unsigned integers of at most 16 bits (x & 0 is 0).
BitAnd(a, b) ==
    Val({ IF x = 0 \/ y = 0 THEN 0 ELSE AndFrom(x, y, 0) : x \in {a}, y \in {b} })

\* x << n on a uintW value: the bits shifted past bit W-1 are lost.
Shl(x, n, w) == (x * (2 ^ n)) % (2 ^ w)

\* x >> n on an unsigned value.
Shr(x, n) == x \div (2 ^ n)

\* uint16(hi)<<8 | uint16(lo)
U16(hi, lo) == BitOr(Shl(hi, 8, 16), lo)

\* The two bytes binary.Write(buff, binary.BigEndian, v) emits for a uint16.
BigEndian16(v) == << (v \div 256) % 256, v % 256 >>

\* queryByteMask: (1 << n) - 1 computed in a byte.
queryByteMask(n) == (Shl(1, n, 8) + 255) % 256

\* Go's in-range test for msg[i].
InRange(msg, i) == i >= 0 /\ i < Len(msg)

\* msg[i] for a Go index i known to be in range.
At(msg, i) == msg[i + 1]

\* msg[start:end] for bounds known to be in range.
Slice(msg, start, end) == SubSeq(msg, start + 1, end)

Range(s) == { s[i] : i \in 1..Len(s) }

\* n bytes c.
Rep(c, n) == [i \in 1..n |-> c]

(***************************************************************************)
(* Domain names: helpers.go, unpackDomainName.                             *)
(***************************************************************************)
\* The byte '.'.
Dot == 46

\* isPointer := (cb >> 6) == 3
isPointer(cb) == Shr(cb, 6) = 3

\* p := uint16(cb&queryByteMask(6)) | uint16(msg[offl+1]), with b2 = msg[offl+1].
PointerOffset(cb, b2) == BitOr(BitAnd(cb, queryByteMask(6)), b2)

\* One pass through the body of unpackDomainName's for loop, from its state
\* (offl, nameb, ptrn).  pc is "loop" after continue or after the end of the
\* body, "break" after break, "panic" when an index is out of range.
NameStep(msg, offl, nameb, ptrn) ==
    IF ~InRange(msg, offl)
    THEN [pc |-> "panic", offl |-> offl, nameb |-> nameb, ptrn |-> ptrn]
    ELSE LET cb == At(msg, offl) IN
         IF isPointer(cb)
         THEN IF ~InRange(msg, offl + 1)
              THEN [pc |-> "panic", offl |-> offl, nameb |-> nameb, ptrn |-> ptrn]
              ELSE [pc |-> "loop", offl |-> PointerOffset(cb, At(msg, offl + 1)),
                    nameb |-> nameb, ptrn |-> ptrn + 1]
         ELSE LET size == cb
                  end  == offl + 1 + size
              IN IF size = 0
                 THEN [pc |-> "break", offl |-> offl + 1, nameb |-> nameb, ptrn |-> ptrn]
                 ELSE IF end > Len(msg)
                      THEN [pc |-> "panic", offl |-> offl + 1, nameb |-> nameb,
                            ptrn |-> ptrn]
                      ELSE [pc |-> "loop", offl |-> end,
                            nameb |-> nameb \o Slice(msg, offl + 1, end) \o << Dot >>,
                            ptrn |-> ptrn]

\* NameResult without its case for names with pointers.
NameResultByOffset(off, offl, nameb, ptrn) ==
    [st |-> "ok", name |-> nameb, offn |-> offl, n |-> offl - off]

\* The statements after the loop: name, offn and bytesRead.
NameResult(off, offl, nameb, ptrn) ==
    IF ptrn > 0
    THEN [st |-> "ok", name |-> nameb, offn |-> off + 2, n |-> 2]
    ELSE [st |-> "ok", name |-> nameb, offn |-> offl, n |-> offl - off]

\* What a name decode reports when it does not return.
Failed(st) == [st |-> st, name |-> << >>, offn |-> 0, n |-> 0]

RECURSIVE NameLoop(_, _, _, _)
\* The for loop run to its end from the loop state s.  The loop's control
\* depends on offl alone, so reaching the loop head at an offset in seen (the
\* offsets it was at before) means the loop never ends.
NameLoop(msg, off, s, seen) ==
    CASE s.pc = "panic" -> Failed("panic")
      [] s.pc = "break" -> NameResult(off, s.offl, s.nameb, s.ptrn)
      [] s.offl \in seen -> Failed("hang")
      [] OTHER -> Val({ NameLoop(msg, off, t, u) :
                            t \in { NameStep(msg, s.offl, s.nameb, s.ptrn) },
                            u \in { seen \cup { s.offl } } })

\* unpackDomainName(msg, off): st, the name, the next offset, the bytes read.
unpackDomainName(msg, off) ==
    NameLoop(msg, off, [pc |-> "loop", offl |-> off, nameb |-> << >>, ptrn |-> 0], {})

(***************************************************************************)
(* Header: Header.Pack and Header.Unpack.                                  *)
(***************************************************************************)
\* HeaderFlags with the RA bit one position lower, in the reserved bits.
HeaderFlagsRALow(h) ==
    BitOr(Shl(h.QR, 15, 16),
    BitOr(Shl(h.OpCode, 11, 16),
    BitOr(Shl(h.AA, 10, 16),
    BitOr(Shl(h.TC, 9, 16),
    BitOr(Shl(h.RD, 8, 16),
    BitOr(Shl(h.RA, 6, 16),
          Shl(h.RCode, 0, 16)))))))

\* The second 16-bit section of the header, as Pack merges it.
HeaderFlags(h) ==
    BitOr(Shl(h.QR, 15, 16),
    BitOr(Shl(h.OpCode, 11, 16),
    BitOr(Shl(h.AA, 10, 16),
    BitOr(Shl(h.TC, 9, 16),
    BitOr(Shl(h.RD, 8, 16),
    BitOr(Shl(h.RA, 7, 16),
          Shl(h.RCode, 0, 16)))))))

\* Header.Pack: the 12 bytes.  Writing to a bytes.Buffer never fails, so the
\* error Pack returns is always nil.
HeaderPack(h) ==
    BigEndian16(h.ID) \o BigEndian16(HeaderFlags(h)) \o BigEndian16(h.QDCount)
        \o BigEndian16(h.ANCount) \o BigEndian16(h.NSCount) \o BigEndian16(h.ARCount)

\* The zero value of Header.
ZeroHeader ==
    [ID |-> 0, QR |-> 0, OpCode |-> 0, AA |-> 0, TC |-> 0, RD |-> 0, RA |-> 0,
     Z |-> 0, RCode |-> 0, QDCount |-> 0, ANCount |-> 0, NSCount |-> 0, ARCount |-> 0]

\* Header.Unpack(msg, off) on a zero-valued receiver (Z is never assigned).
HeaderUnpack(msg, off) ==
    IF ~InRange(msg, off + 11)
    THEN [st |-> "panic", n |-> 0, h |-> ZeroHeader]
    ELSE [st |-> "ok", n |-> 12,
          h |-> [ID      |-> U16(At(msg, off), At(msg, off + 1)),
                 QR      |-> BitAnd(Shr(At(msg, off + 2), 7), queryByteMask(1)),
                 OpCode  |-> BitAnd(Shr(At(msg, off + 2), 3), queryByteMask(4)),
                 AA      |-> BitAnd(Shr(At(msg, off + 2), 2), queryByteMask(1)),
                 TC      |-> BitAnd(Shr(At(msg, off + 2), 1), queryByteMask(1)),
                 RD      |-> BitAnd(Shr(At(msg, off + 2), 0), queryByteMask(1)),
                 RA      |-> BitAnd(Shr(At(msg, off + 3), 7), queryByteMask(1)),
                 Z       |-> 0,
                 RCode   |-> BitAnd(Shr(At(msg, off + 3), 0), queryByteMask(4)),
                 QDCount |-> U16(At(msg, off + 4), At(msg, off + 5)),
                 ANCount |-> U16(At(msg, off + 6), At(msg, off + 7)),
                 NSCount |-> U16(At(msg, off + 8), At(msg, off + 9)),
                 ARCount |-> U16(At(msg, off + 10), At(msg, off + 11))]]

(***************************************************************************)
(* Question: Question.Pack and Question.Unpack.                            *)
(***************************************************************************)
\* The index of the first dot of t, 0 without one.
FirstDot(t) ==
    IF Dot \notin Range(t) THEN 0
    ELSE CHOOSE k \in 1..Len(t) : t[k] = Dot /\ \A j \in 1..(k - 1) : t[j] # Dot

RECURSIVE Split(_)
\* strings.Split(s, "."): the segments of s between dots, empty ones included.
Split(s) ==
    Val({ IF i = 0 THEN << t >>
          ELSE << SubSeq(t, 1, i - 1) >> \o Split(SubSeq(t, i + 1, Len(t))) :
              t \in { s }, i \in { FirstDot(s) } })

RECURSIVE PackLabels(_, _)
\* The loop over labels, from index i: it stops at the first empty label.
PackLabels(labels, i) ==
    IF i > Len(labels) \/ labels[i] = << >> THEN << >>
    ELSE << Len(labels[i]) % 256 >> \o labels[i] \o PackLabels(labels, i + 1)

\* QName as Pack writes it: the labels, then the zero length byte.
PackName(name) == Val({ PackLabels(labels, 1) \o << 0 >> : labels \in { Split(name) } })

\* Question.Pack: the bytes.  No write fails, so the error is always nil.
QuestionPack(q) ==
    [err |-> "nil",
     b   |-> PackName(q.QName) \o BigEndian16(q.QType) \o BigEndian16(q.QClass)]

\* The zero value of Question.
ZeroQuestion == [QName |-> << >>, QType |-> 0, QClass |-> 0]

\* Question.Unpack(msg, off).
QuestionUnpack(msg, off) ==
    Val({ IF nm.st # "ok" THEN [st |-> nm.st, n |-> 0, q |-> ZeroQuestion]
          ELSE IF ~InRange(msg, nm.offn + 3)
          THEN [st |-> "panic", n |-> 0, q |-> ZeroQuestion]
          ELSE [st |-> "ok", n |-> nm.n + 4,
                q |-> [QName  |-> nm.name,
                       QType  |-> U16(At(msg, nm.offn), At(msg, nm.offn + 1)),
                       QClass |-> U16(At(msg, nm.offn + 2), At(msg, nm.offn + 3))]] :
              nm \in { unpackDomainName(msg, off) } })

(***************************************************************************)
(* Resource records: RR.Unpack, with net.IP.String for A records.          *)
(***************************************************************************)
TypeA == 1
TypeNS == 2
TypeCNAME == 5
TypeSOA == 6
TypeTXT == 16
ClassIN == 1

RECURSIVE Decimal(_)
\* The decimal digits of n, as fmt and net print an unsigned number.
Decimal(n) == IF n < 10 THEN << 48 + n >> ELSE Decimal(n \div 10) \o << 48 + (n % 10) >>

\* One lower-case hexadecimal digit.
HexDigit(d) == IF d < 10 THEN 48 + d ELSE 87 + d

RECURSIVE HexFrom(_, _)
\* The two hexadecimal digits of every byte of b from index i on.
HexFrom(b, i) ==
    IF i > Len(b) THEN << >>
    ELSE << HexDigit(b[i] \div 16), HexDigit(b[i] % 16) >> \o HexFrom(b, i + 1)

\* net.IP.String for an IP of any length but 16: "<nil>" for no bytes, dotted
\* decimal for four, "?" and the hexadecimal bytes otherwise.  The 16-byte
\* (IPv6) rendering is not modelled: no record of the model has 16 RDATA bytes.
IPString(ip) ==
    IF Len(ip) = 0 THEN << 60, 110, 105, 108, 62 >>
    ELSE IF Len(ip) = 4
         THEN Decimal(ip[1]) \o << Dot >> \o Decimal(ip[2]) \o << Dot >>
                  \o Decimal(ip[3]) \o << Dot >> \o Decimal(ip[4])
         ELSE << 63 >> \o HexFrom(ip, 1)

\* The zero value of RR.  TTL, a uint32, is kept as its high and its low 16
\* bits: the model checker's integers end at 2^31 - 1.
ZeroRR ==
    [Name |-> << >>, Type |-> 0, Class |-> 0, TTL |-> << 0, 0 >>, RDLength |-> 0,
     RData |-> << >>, RDataUnpacked |-> << >>]

\* UnpackRData with the RDATA of every other type taken over as it is.
UnpackRDataRaw(msg, type, start, rdata) ==
    CASE type = TypeA -> [st |-> "ok", s |-> IPString(rdata)]
      [] type \in {TypeCNAME, TypeNS} ->
            Val({ [st |-> nm.st, s |-> nm.name] : nm \in { unpackDomainName(msg, start) } })
      [] OTHER -> [st |-> "ok", s |-> rdata]

\* The switch on r.Type at the end of RR.Unpack: st and RDataUnpacked.
UnpackRData(msg, type, start, rdata) ==
    CASE type = TypeA -> [st |-> "ok", s |-> IPString(rdata)]
      [] type \in {TypeCNAME, TypeNS} ->
            Val({ [st |-> nm.st, s |-> nm.name] : nm \in { unpackDomainName(msg, start) } })
      [] OTHER -> [st |-> "ok", s |-> << >>]

\* RR.Unpack after the name nm has been read: the fixed fields, RDATA and the
\* switch on the type.
RRFields(msg, nm) ==
    IF nm.st # "ok" THEN [st |-> nm.st, n |-> 0, r |-> ZeroRR]
    ELSE IF ~InRange(msg, nm.offn + 9) THEN [st |-> "panic", n |-> 0, r |-> ZeroRR]
    ELSE IF nm.offn + 10 + U16(At(msg, nm.offn + 8), At(msg, nm.offn + 9)) > Len(msg)
    THEN [st |-> "panic", n |-> 0, r |-> ZeroRR]
    ELSE Val({ IF un.st # "ok" THEN [st |-> un.st, n |-> 0, r |-> ZeroRR]
               ELSE [st |-> "ok", n |-> nm.n + 4 + 4 + 2 + size,
                     r |-> [Name |-> nm.name, Type |-> type,
                            Class |-> U16(At(msg, nm.offn + 2), At(msg, nm.offn + 3)),
                            TTL |-> << U16(At(msg, nm.offn + 4), At(msg, nm.offn + 5)),
                                       U16(At(msg, nm.offn + 6), At(msg, nm.offn + 7)) >>,
                            RDLength |-> size,
                            RData |-> Slice(msg, nm.offn + 10, nm.offn + 10 + size),
                            RDataUnpacked |-> un.s]] :
                   type \in { U16(At(msg, nm.offn), At(msg, nm.offn + 1)) },
                   size \in { U16(At(msg, nm.offn + 8), At(msg, nm.offn + 9)) },
                   un \in { UnpackRData(msg,
                                U16(At(msg, nm.offn), At(msg, nm.offn + 1)),
                                nm.offn + 10,
                                Slice(msg, nm.offn + 10,
                                      nm.offn + 10
                                          + U16(At(msg, nm.offn + 8), At(msg, nm.offn + 9)))) } })

\* RR.Unpack(msg, off).
RRUnpack(msg, off) == Val({ RRFields(msg, nm) : nm \in { unpackDomainName(msg, off) } })

(***************************************************************************)
(* Messages: Msg.Pack and Msg.Unpack.                                      *)
(***************************************************************************)
\* The zero value of Msg.
ZeroMsg ==
    [Header |-> ZeroHeader, Question |-> ZeroQuestion, Answer |-> << >>,
     Authority |-> << >>, Additional |-> << >>]

\* Msg.Pack: header bytes, then question bytes.
MsgPack(m) ==
    Val({ [err |-> q.err,
           b   |-> IF q.err = "nil" THEN HeaderPack(m.Header) \o q.b ELSE << >>] :
              q \in { QuestionPack(m.Question) } })

RECURSIVE UnpackSectionNewestFirst(_, _, _, _)
\* UnpackSection with every record put in front of the ones before it.
UnpackSectionNewestFirst(msg, off, count, rrs) ==
    IF count = 0 THEN [st |-> "ok", rrs |-> rrs, off |-> off]
    ELSE Val({ IF r.st # "ok" THEN [st |-> r.st, rrs |-> rrs, off |-> off]
               ELSE UnpackSectionNewestFirst(msg, off + r.n, count - 1, << r.r >> \o rrs) :
                   r \in { RRUnpack(msg, off) } })

RECURSIVE UnpackSection(_, _, _, _)
\* One of the three loops of Msg.Unpack: count records from offset off, appended
\* to rrs.  st, the records, the offset after them.
UnpackSection(msg, off, count, rrs) ==
    IF count = 0 THEN [st |-> "ok", rrs |-> rrs, off |-> off]
    ELSE Val({ IF r.st # "ok" THEN [st |-> r.st, rrs |-> rrs, off |-> off]
               ELSE UnpackSection(msg, off + r.n, count - 1, Append(rrs, r.r)) :
                   r \in { RRUnpack(msg, off) } })

\* Msg.Unpack as far as block k of its five blocks (header, question, answer,
\* authority, additional), each run on what the blocks before it left in d:
\* st, the running offset and the message so far.  A block that fails ends
\* the decode.
RECURSIVE UnpackBlocks(_, _, _)
UnpackBlocks(msg, d, k) ==
    IF d.st # "ok" \/ k > 5 THEN d
    ELSE Val({ UnpackBlocks(msg, e, k + 1) : e \in {
        CASE k = 1 ->
               Val({ [st |-> h.st, off |-> d.off + h.n, m |-> [d.m EXCEPT !.Header = h.h]] :
                         h \in { HeaderUnpack(msg, d.off) } })
          [] k = 2 ->
               Val({ [st |-> q.st, off |-> d.off + q.n, m |-> [d.m EXCEPT !.Question = q.q]] :
                         q \in { QuestionUnpack(msg, d.off) } })
          [] k = 3 ->
               Val({ [st |-> s.st, off |-> s.off, m |-> [d.m EXCEPT !.Answer = s.rrs]] :
                         s \in { UnpackSection(msg, d.off, d.m.Header.ANCount, << >>) } })
          [] k = 4 ->
               Val({ [st |-> s.st, off |-> s.off, m |-> [d.m EXCEPT !.Authority = s.rrs]] :
                         s \in { UnpackSection(msg, d.off, d.m.Header.NSCount, << >>) } })
          [] k = 5 ->
               Val({ [st |-> s.st, off |-> s.off, m |-> [d.m EXCEPT !.Additional = s.rrs]] :
                         s \in { UnpackSection(msg, d.off, d.m.Header.ARCount, << >>) } }) } })

\* Msg.Unpack(msg) on a zero-valued receiver: st, the byte count, the message.
MsgUnpack(msg) ==
    Val({ IF d.st = "ok" THEN [st |-> "ok", n |-> d.off, m |-> d.m]
          ELSE [st |-> d.st, n |-> 0, m |-> ZeroMsg] :
              d \in { Val({ UnpackBlocks(b, [st |-> "ok", off |-> 0, m |-> ZeroMsg], 1) :
                                b \in { msg } }) } })

(***************************************************************************)
(* The resolver: resolver.go.  A net.IP is its four address bytes; the nil *)
(* IP is the empty sequence.                                               *)
(***************************************************************************)
Nil == << >>

RECURSIVE DecimalValue(_)
\* The number a string of decimal digits denotes.
DecimalValue(f) ==
    IF f = << >> THEN 0
    ELSE 10 * DecimalValue(SubSeq(f, 1, Len(f) - 1)) + (f[Len(f)] - 48)

\* A field net.ParseIP accepts in a dotted-decimal address: one to three
\* digits, no leading zero, at most 255.
ValidField(f) ==
    /\ Len(f) \in 1..3
    /\ \A i \in 1..Len(f) : f[i] \in 48..57
    /\ (Len(f) > 1 => f[1] # 48)
    /\ DecimalValue(f) <= 255

\* net.ParseIP(s) for a string that holds no ':' (an IPv6 literal is not
\* modelled; no string of the model holds one): the address, or Nil.
ParseIP(s) ==
    LET f == Split(s) IN
    IF Len(f) = 4 /\ \A i \in 1..4 : ValidField(f[i])
    THEN << DecimalValue(f[1]), DecimalValue(f[2]), DecimalValue(f[3]), DecimalValue(f[4]) >>
    ELSE Nil

\* Normalize with the dot put in front of the name.
NormalizeDotFirst(name) ==
    IF Len(name) > 0 /\ name[Len(name)] = Dot THEN name ELSE << Dot >> \o name

\* if !strings.HasSuffix(name, ".") { name += "." }
Normalize(name) ==
    IF Len(name) > 0 /\ name[Len(name)] = Dot THEN name ELSE name \o << Dot >>

\* getRootNameServer: net.ParseIP("198.41.0.4").
getRootNameServer == ParseIP(<< 49, 57, 56, 46, 52, 49, 46, 48, 46, 52 >>)

\* getAnswer: RDataUnpacked of the first answer record, "" without one.
getAnswer(m) == IF Len(m.Answer) > 0 THEN m.Answer[1].RDataUnpacked ELSE << >>

\* getAuthority: RDataUnpacked of the first authority record, "" without one.
getAuthority(m) == IF Len(m.Authority) > 0 THEN m.Authority[1].RDataUnpacked ELSE << >>

RECURSIVE FirstAddress(_, _)
\* The first record of rrs, from index i on, whose RDataUnpacked is an IP.
FirstAddress(rrs, i) ==
    IF i > Len(rrs) THEN Nil
    ELSE IF ParseIP(rrs[i].RDataUnpacked) # Nil THEN ParseIP(rrs[i].RDataUnpacked)
    ELSE FirstAddress(rrs, i + 1)

\* getAdditional looking through all additional records for an address.
getAdditionalAny(m) == FirstAddress(m.Additional, 1)

\* getAdditional: the first additional record's RDataUnpacked parsed as an IP.
getAdditional(m) ==
    IF Len(m.Additional) > 0 THEN ParseIP(m.Additional[1].RDataUnpacked) ELSE Nil

\* The OpCode of a standard query.
OpCodeQuery == 0

\* SetQuery without the request for recursion.
SetQueryNoRD(id, name, qt) ==
    [Header     |-> [ZeroHeader EXCEPT !.ID = id, !.QR = 0, !.OpCode = OpCodeQuery,
                                       !.QDCount = 1],
     Question   |-> [QName |-> name, QType |-> qt, QClass |-> ClassIN],
     Answer     |-> << >>,
     Authority  |-> << >>,
     Additional |-> << >>]

\* Msg.SetQuery(name, qt) on a zero-valued message, as lookup calls it on
\* new(dns.Msg), with the generated ID.
SetQuery(id, name, qt) ==
    [Header     |-> [ZeroHeader EXCEPT !.ID = id, !.QR = 0, !.OpCode = OpCodeQuery,
                                       !.RD = 1, !.QDCount = 1],
     Question   |-> [QName |-> name, QType |-> qt, QClass |-> ClassIN],
     Answer     |-> << >>,
     Authority  |-> << >>,
     Additional |-> << >>]

\* The size of lookup's receive buffer.
BuffSize == 512

\* buff after conn.Read stored the datagram resp in it: the first 512 bytes of
\* resp, and zero where resp wrote nothing.
Buff(resp) == [i \in 1..BuffSize |-> IF i <= Len(resp) THEN resp[i] ELSE 0]

(***************************************************************************)
(* The inputs of the resolver part: the names and types Resolve is called  *)
(* with, and the datagrams a transport answers with.                       *)
(***************************************************************************)
\* "a.b." and "a.b"
NameAB == << 97, 46, 98, 46 >>
NameABRel == << 97, 46, 98 >>

\* The names Resolve is called with: the two above, the root name and "".
ResolveNames == { NameAB, NameABRel, << Dot >>, << >> }
ResolveTypes == { TypeA, TypeTXT }

\* The IDs generateMsgID is taken to produce.
MsgIDs == { 4660 }

\* One resource record on the wire.
WireRR(name, type, rdata) ==
    name \o BigEndian16(type) \o BigEndian16(ClassIN) \o << 0, 0, 0, 60 >>
         \o BigEndian16(Len(rdata)) \o rdata

RECURSIVE Concat(_)
Concat(ss) == IF ss = << >> THEN << >> ELSE Head(ss) \o Concat(Tail(ss))

\* A response datagram for the question (a.b., A, IN) with the given sections.
\* The question's name is at offset 12 and its suffix "b." at offset 14.
WireResponse(an, ns, ar) ==
    HeaderPack([ZeroHeader EXCEPT !.ID = 4660, !.QR = 1, !.QDCount = 1,
                                  !.ANCount = Len(an), !.NSCount = Len(ns),
                                  !.ARCount = Len(ar)])
        \o QuestionPack([QName |-> NameAB, QType |-> TypeA, QClass |-> ClassIN]).b
        \o Concat(an) \o Concat(ns) \o Concat(ar)

\* A pointer to the question's name.
OwnerPtr == << 192, 12 >>
\* a.b. A 5.6.7.8 and a.b. A 1.2.3.4
RRAnswerA == WireRR(OwnerPtr, TypeA, << 5, 6, 7, 8 >>)
RRGlueA == WireRR(OwnerPtr, TypeA, << 1, 2, 3, 4 >>)
\* a.b. NS ns.b. (the RDATA ends in a pointer to "b.")
RRNS == WireRR(OwnerPtr, TypeNS, << 2, 110, 115, 192, 14 >>)
\* a.b. CNAME c.b.
RRCNAME == WireRR(OwnerPtr, TypeCNAME, << 1, 99, 192, 14 >>)
\* a.b. TXT "hi"
RRTXT == WireRR(OwnerPtr, TypeTXT, << 2, 104, 105 >>)
\* A record that declares 600 bytes of RDATA.
RROversize == OwnerPtr \o BigEndian16(TypeA) \o BigEndian16(ClassIN) \o << 0, 0, 0, 60 >>
                  \o BigEndian16(600)
\* A record whose name is a pointer to itself (the first record is at offset 21).
RRSelfPtr == WireRR(<< 192, 21 >>, TypeA, << 5, 6, 7, 8 >>)

\* a.b. NS . (the RDATA is the root name)
RRNSRoot == WireRR(OwnerPtr, TypeNS, << 0 >>)

\* The records of the datagrams of the transport, section by section.  The
\* ninth has several records in every section; the tenth has an address in
\* its second additional record only, the eleventh a server name in its
\* second authority record only.
Sections ==
    << [an |-> << >>, ns |-> << >>, ar |-> << >>],
       [an |-> << RRAnswerA >>, ns |-> << >>, ar |-> << >>],
       [an |-> << >>, ns |-> << RRNS >>, ar |-> << RRGlueA >>],
       [an |-> << >>, ns |-> << RRNS >>, ar |-> << >>],
       [an |-> << RRTXT >>, ns |-> << RRNS >>, ar |-> << RRGlueA >>],
       [an |-> << RRCNAME >>, ns |-> << >>, ar |-> << >>],
       [an |-> << RROversize >>, ns |-> << >>, ar |-> << >>],
       [an |-> << RRSelfPtr >>, ns |-> << >>, ar |-> << >>],
       [an |-> << RRAnswerA, RRCNAME >>, ns |-> << RRNS, RRTXT >>,
        ar |-> << RRGlueA, RRAnswerA, RRTXT >>],
       [an |-> << >>, ns |-> << RRNS >>, ar |-> << RRTXT, RRGlueA >>],
       [an |-> << >>, ns |-> << RRNSRoot, RRNS >>, ar |-> << >>] >>

\* A datagram with the header h, the question q and the given sections.
WireMessage(h, q, an, ns, ar) ==
    HeaderPack(h) \o QuestionPack(q).b \o Concat(an) \o Concat(ns) \o Concat(ar)

\* The question (a.b., A, IN).
QuestionAB == [QName |-> NameAB, QType |-> TypeA, QClass |-> ClassIN]

\* a.b. TXT "hi" with its name written as labels.
RRLabelsTXT == WireRR(<< 1, 97, 1, 98, 0 >>, TypeTXT, << 2, 104, 105 >>)

\* Datagrams with the records of others and another header or question:
\* the second datagram as a query with another ID, OpCode and RCode and with
\* AA, TC and RA set; the third with another ID and the question
\* (a.b., TXT, class 255); and two that hold the same additional record,
\* written without a pointer, after the questions (a.b., A, IN) and
\* (c., A, IN).
Variants ==
    << WireMessage([ZeroHeader EXCEPT !.ID = 1, !.QR = 0, !.OpCode = 2, !.AA = 1, !.TC = 1,
                                      !.RA = 1, !.RCode = 3, !.QDCount = 1, !.ANCount = 1],
                   QuestionAB, << RRAnswerA >>, << >>, << >>),
       WireMessage([ZeroHeader EXCEPT !.ID = 7, !.QR = 1, !.QDCount = 1, !.NSCount = 1,
                                      !.ARCount = 1],
                   [QName |-> NameAB, QType |-> TypeTXT, QClass |-> 255],
                   << >>, << RRNS >>, << RRGlueA >>),
       WireMessage([ZeroHeader EXCEPT !.ID = 4660, !.QR = 1, !.QDCount = 1, !.ARCount = 1],
                   QuestionAB, << >>, << >>, << RRLabelsTXT >>),
       WireMessage([ZeroHeader EXCEPT !.ID = 4660, !.QR = 1, !.QDCount = 1, !.ARCount = 1],
                   [QName |-> << 99, Dot >>, QType |-> TypeA, QClass |-> ClassIN],
                   << >>, << >>, << RRLabelsTXT >>) >>

\* A name of 255 bytes on the wire: labels of 63, 63, 63 and 61 bytes.
NameLong ==
    Rep(97, 63) \o << Dot >> \o Rep(98, 63) \o << Dot >> \o Rep(99, 63) \o << Dot >>
        \o Rep(100, 61) \o << Dot >>

\* A header and the question (name, A, IN) with nothing after them, the
\* header declaring an answer records.
Declaring(name, an) ==
    WireMessage([ZeroHeader EXCEPT !.ID = 4660, !.QR = 1, !.QDCount = 1, !.ANCount = an],
                [QName |-> name, QType |-> TypeA, QClass |-> ClassIN], << >>, << >>, << >>)

\* Datagrams shorter than what they declare, and one of the buffer's size:
\* two declared answer records and none in the datagram; 22 declared answer
\* records and none in the datagram, after a question that ends at offset
\* 271, so that the buffer has room for 21 records of 11 bytes; and the
\* first of these with zero bytes after it, 512 bytes in all.
ShortDatagrams ==
    << Declaring(NameAB, 2),
       Declaring(NameLong, 22),
       Declaring(NameAB, 2) \o Rep(0, BuffSize - Len(Declaring(NameAB, 2))) >>

\* The datagrams of the transport.
Catalog ==
    [i \in 1..Len(Sections) |-> WireResponse(Sections[i].an, Sections[i].ns, Sections[i].ar)]
        \o Variants \o ShortDatagrams

\* resp.Unpack(buff) for every datagram of the catalog.
Decoded == [i \in 1..Len(Catalog) |-> MsgUnpack(Buff(Catalog[i]))]

\* What the transport does in one lookup: a failure of dial, of the ID
\* generation, of the write or of the read, or the datagram it answers with.
\* In the second case i is the datagram's index in the catalog (0 otherwise).
Outcomes ==
    { [kind |-> k, i |-> 0] : k \in { "dial", "setquery", "write", "read" } }
        \cup { [kind |-> "resp", i |-> i] : i \in 1..Len(Catalog) }

(***************************************************************************)
(* State.                                                                  *)
(*   call    the arguments of the outermost Resolve call                   *)
(*   stack   the active Resolve calls, outermost first: each one's name,   *)
(*           qt and server                                                 *)
(*   log     one entry for every call of lookup, in order                  *)
(*   result  what the outermost Resolve call has returned                  *)
(*   nmsg, noff  the arguments of a running unpackDomainName call          *)
(*   nst     its loop state: offl, nameb, ptrn and where it is (pc)        *)
(*   nres    what it returned                                              *)
(*   cmode, cstage  the codec operation under way and how far it is        *)
(*   hdr, que       the Header and the Question given to Pack              *)
(*   cut     the datagram of the catalog, and the length of its prefix,    *)
(*           given to Msg.Unpack; or the record, and its offset in the     *)
(*           message, given to RR.Unpack                                   *)
(*   packed  what Pack returned, or the bytes given to Unpack              *)
(*   unpacked  what Unpack returned                                        *)
(***************************************************************************)
VARIABLES call, stack, log, result, nmsg, noff, nst, nres,
          cmode, cstage, hdr, que, cut, packed, unpacked

rvars == << call, stack, log, result >>
nvars == << nmsg, noff, nst, nres >>
cvars == << cmode, cstage, hdr, que, cut, packed, unpacked >>
vars == << rvars, nvars, cvars >>

NoCall == [name |-> << >>, qt |-> 0]

\* lookup with conn.Close() called before the final return instead of
\* deferred.
lookupCloseAtEnd(server, name, qt, id, out) ==
    LET qmsg  == SetQuery(id, name, qt)
        query == MsgPack(qmsg)
        none  == [err |-> "nil", qmsg |-> qmsg, query |-> << >>, st |-> "ok",
                  msg |-> ZeroMsg, conn |-> << >>]
    IN CASE out.kind = "dial" \/ server = Nil ->
                [none EXCEPT !.err = "dial", !.qmsg = ZeroMsg]
         [] out.kind = "setquery" ->
                [none EXCEPT !.err = "setquery", !.qmsg = ZeroMsg, !.conn = << "open" >>]
         [] query.err # "nil" -> [none EXCEPT !.err = "pack", !.conn = << "open" >>]
         [] out.kind = "write" ->
                [none EXCEPT !.err = "write", !.query = query.b,
                             !.conn = << "open", "write" >>]
         [] out.kind = "read" ->
                [none EXCEPT !.err = "read", !.query = query.b,
                             !.conn = << "open", "write", "read" >>]
         [] OTHER -> [err |-> "nil", qmsg |-> qmsg, query |-> query.b, st |-> Decoded[out.i].st,
                      msg |-> Decoded[out.i].m,
                      conn |-> IF Decoded[out.i].st = "ok"
                               THEN << "open", "write", "read", "close" >>
                               ELSE << "open", "write", "read" >>]

\* lookup with a test of the response's ID against the query's.
lookupCheckID(server, name, qt, id, out) ==
    LET qmsg  == SetQuery(id, name, qt)
        query == MsgPack(qmsg)
        none  == [err |-> "nil", qmsg |-> qmsg, query |-> << >>, st |-> "ok",
                  msg |-> ZeroMsg, conn |-> << >>]
    IN CASE out.kind = "dial" \/ server = Nil ->
                [none EXCEPT !.err = "dial", !.qmsg = ZeroMsg]
         [] out.kind = "setquery" ->
                [none EXCEPT !.err = "setquery", !.qmsg = ZeroMsg,
                             !.conn = << "open", "close" >>]
         [] query.err # "nil" ->
                [none EXCEPT !.err = "pack", !.conn = << "open", "close" >>]
         [] out.kind = "write" ->
                [none EXCEPT !.err = "write", !.query = query.b,
                             !.conn = << "open", "write", "close" >>]
         [] out.kind = "read" ->
                [none EXCEPT !.err = "read", !.query = query.b,
                             !.conn = << "open", "write", "read", "close" >>]
         [] Decoded[out.i].st = "ok" /\ Decoded[out.i].m.Header.ID # id ->
                [none EXCEPT !.err = "id", !.query = query.b,
                             !.conn = << "open", "write", "read", "close" >>]
         [] OTHER -> [err |-> "nil", qmsg |-> qmsg, query |-> query.b, st |-> Decoded[out.i].st,
                      msg |-> Decoded[out.i].m,
                      conn |-> IF Decoded[out.i].st = "hang"
                               THEN << "open", "write", "read" >>
                               ELSE << "open", "write", "read", "close" >>]

\* lookup(server, name, qt) when the transport does out and generateMsgID
\* gives id: err is the step that failed ("nil" for none), query the bytes
\* handed to conn.Write, qmsg the message SetQuery filled in (the zero message
\* if it was not), st and msg the outcome of resp.Unpack(buff), conn
\* what was done with the connection, in order.  The deferred conn.Close()
\* runs at every return and when resp.Unpack panics; it does not run while
\* resp.Unpack does not return.
lookup(server, name, qt, id, out) ==
    LET qmsg  == SetQuery(id, name, qt)
        query == MsgPack(qmsg)
        none  == [err |-> "nil", qmsg |-> qmsg, query |-> << >>, st |-> "ok",
                  msg |-> ZeroMsg, conn |-> << >>]
    IN CASE out.kind = "dial" \/ server = Nil ->
                [none EXCEPT !.err = "dial", !.qmsg = ZeroMsg]
         [] out.kind = "setquery" ->
                [none EXCEPT !.err = "setquery", !.qmsg = ZeroMsg,
                             !.conn = << "open", "close" >>]
         [] query.err # "nil" ->
                [none EXCEPT !.err = "pack", !.conn = << "open", "close" >>]
         [] out.kind = "write" ->
                [none EXCEPT !.err = "write", !.query = query.b,
                             !.conn = << "open", "write", "close" >>]
         [] out.kind = "read" ->
                [none EXCEPT !.err = "read", !.query = query.b,
                             !.conn = << "open", "write", "read", "close" >>]
         [] OTHER -> [err |-> "nil", qmsg |-> qmsg, query |-> query.b, st |-> Decoded[out.i].st,
                      msg |-> Decoded[out.i].m,
                      conn |-> IF Decoded[out.i].st = "hang"
                               THEN << "open", "write", "read" >>
                               ELSE << "open", "write", "read", "close" >>]

\* ResolveStep with a limit of two lookups: once two have been made, the
\* next response ends the resolution with an error unless it is an answer.
ResolveStepHopLimit(lk) ==
    IF lk.st # "ok" THEN [do |-> lk.st]
    ELSE IF lk.err # "nil"
    THEN [do |-> "return", ret |-> [kind |-> "err", err |-> << "lookup", lk.err >>]]
    ELSE IF getAnswer(lk.msg) # << >>
    THEN [do |-> "return", ret |-> [kind |-> "ok", an |-> getAnswer(lk.msg)]]
    ELSE IF Len(log) >= 2
    THEN [do |-> "return", ret |-> [kind |-> "err", err |-> << "noanswer" >>]]
    ELSE IF getAdditional(lk.msg) # Nil
    THEN [do |-> "continue", server |-> getAdditional(lk.msg)]
    ELSE IF getAuthority(lk.msg) # << >>
    THEN [do |-> "call", name |-> getAuthority(lk.msg)]
    ELSE [do |-> "return", ret |-> [kind |-> "err", err |-> << "noanswer" >>]]

\* ResolveStep with the final return replaced by another pass of the loop.
ResolveStepNoGiveUp(lk) ==
    IF lk.st # "ok" THEN [do |-> lk.st]
    ELSE IF lk.err # "nil"
    THEN [do |-> "return", ret |-> [kind |-> "err", err |-> << "lookup", lk.err >>]]
    ELSE IF getAnswer(lk.msg) # << >>
    THEN [do |-> "return", ret |-> [kind |-> "ok", an |-> getAnswer(lk.msg)]]
    ELSE IF getAdditional(lk.msg) # Nil
    THEN [do |-> "continue", server |-> getAdditional(lk.msg)]
    ELSE IF getAuthority(lk.msg) # << >>
    THEN [do |-> "call", name |-> getAuthority(lk.msg)]
    ELSE [do |-> "continue", server |-> getRootNameServer]

\* The body of Resolve's for loop after lookup has returned lk: what it does
\* next.
ResolveStep(lk) ==
    IF lk.st # "ok" THEN [do |-> lk.st]
    ELSE IF lk.err # "nil"
    THEN [do |-> "return", ret |-> [kind |-> "err", err |-> << "lookup", lk.err >>]]
    ELSE IF getAnswer(lk.msg) # << >>
    THEN [do |-> "return", ret |-> [kind |-> "ok", an |-> getAnswer(lk.msg)]]
    ELSE IF getAdditional(lk.msg) # Nil
    THEN [do |-> "continue", server |-> getAdditional(lk.msg)]
    ELSE IF getAuthority(lk.msg) # << >>
    THEN [do |-> "call", name |-> getAuthority(lk.msg)]
    ELSE [do |-> "return", ret |-> [kind |-> "err", err |-> << "noanswer" >>]]

\* The frame of a Resolve(name, qt) call at the head of its loop.
Frame(name, qt) == [name |-> Normalize(name), qt |-> qt, server |-> getRootNameServer]

RECURSIVE Unwind(_, _)
\* A Resolve call returns ret to the calls in stk below it.  The caller, at
\* line 42, either returns an error of its own or takes the answer as its
\* server and goes round its loop.
Unwind(stk, ret) ==
    IF stk = << >> THEN [stack |-> << >>, result |-> ret]
    ELSE LET up == SubSeq(stk, 1, Len(stk) - 1)
             me == stk[Len(stk)]
         IN IF ret.kind = "err"
            THEN Unwind(up, [kind |-> "err", err |-> << "authority" >> \o ret.err])
            ELSE [stack  |-> Append(up, [me EXCEPT !.server = ParseIP(ret.an)]),
                  result |-> [kind |-> "running"]]

\* What lookup's call leaves in the log.
LogEntry(f, depth, id, out, lk) ==
    [server |-> f.server, name |-> f.name, qt |-> f.qt, depth |-> depth, id |-> id,
     out |-> out, qmsg |-> lk.qmsg, query |-> lk.query, conn |-> lk.conn]

\* No Resolve call has been made.
RIdle ==
    /\ call = NoCall
    /\ stack = << >>
    /\ log = << >>
    /\ result = [kind |-> "idle"]

\* main calls Resolve(name, qt).
Start(name, qt) ==
    /\ result.kind = "idle"
    /\ call' = [name |-> name, qt |-> qt]
    /\ stack' = << Frame(name, qt) >>
    /\ result' = [kind |-> "running"]
    /\ UNCHANGED << log, nvars, cvars >>

\* The innermost Resolve call is at the head of its loop.
AtLoop == result.kind = "running" /\ stack # << >> /\ Len(log) < MaxLookups

\* One pass of the loop that ends in a return, from this call and from the
\* callers that return with it.
LoopReturn(id, out) ==
    /\ AtLoop
    /\ LET f  == stack[Len(stack)]
           lk == lookup(f.server, f.name, f.qt, id, out)
           st == ResolveStep(lk)
       IN /\ st.do = "return"
          /\ LET u == Unwind(SubSeq(stack, 1, Len(stack) - 1), st.ret)
             IN stack' = u.stack /\ result' = u.result
          /\ log' = Append(log, LogEntry(f, Len(stack), id, out, lk))
    /\ UNCHANGED << call, nvars, cvars >>

\* One pass of the loop that ends in continue at line 36.
LoopContinue(id, out) ==
    /\ AtLoop
    /\ LET f  == stack[Len(stack)]
           lk == lookup(f.server, f.name, f.qt, id, out)
           st == ResolveStep(lk)
       IN /\ st.do = "continue"
          /\ stack' = [stack EXCEPT ![Len(stack)].server = st.server]
          /\ log' = Append(log, LogEntry(f, Len(stack), id, out, lk))
    /\ UNCHANGED << call, result, nvars, cvars >>

\* One pass of the loop that calls Resolve(name, dns.TypeA) at line 42.
LoopCall(id, out) ==
    /\ AtLoop
    /\ Len(stack) < MaxDepth
    /\ LET f  == stack[Len(stack)]
           lk == lookup(f.server, f.name, f.qt, id, out)
           st == ResolveStep(lk)
       IN /\ st.do = "call"
          /\ stack' = Append(stack, Frame(st.name, TypeA))
          /\ log' = Append(log, LogEntry(f, Len(stack), id, out, lk))
    /\ UNCHANGED << call, result, nvars, cvars >>

\* One pass of the loop in which resp.Unpack panics or never returns.
LoopCrash(id, out) ==
    /\ AtLoop
    /\ LET f  == stack[Len(stack)]
           lk == lookup(f.server, f.name, f.qt, id, out)
           st == ResolveStep(lk)
       IN /\ st.do \in { "panic", "hang" }
          /\ result' = [kind |-> st.do]
          /\ log' = Append(log, LogEntry(f, Len(stack), id, out, lk))
    /\ UNCHANGED << call, stack, nvars, cvars >>

(***************************************************************************)
(* unpackDomainName, one pass of its loop at a time.                       *)
(***************************************************************************)
\* The bytes the decoded sequences are made of: the terminator, two label
\* lengths, a label byte and two pointer bytes.
NameAlphabet == { 0, 1, 2, 97, 192, 193 }

\* The longest byte sequence given to the decoder.
MaxMsgLen == 4

\* ptrn is kept up to this value; the code reads it only in "ptrn > 0".
MaxPtrn == 2

\* A message with the label "co" and the zero byte at offset 20, and after
\* them, at offset 24, the label "dan" and a pointer to offset 20.
CompressionExample ==
    Rep(0, 20) \o << 2, 99, 111, 0 >> \o << 3, 100, 97, 110, 192, 20 >>

\* The byte sequences given to the decoder: all short ones over the alphabet,
\* and the example.
NameMsgs == UNION { [1..n -> NameAlphabet] : n \in 1..MaxMsgLen } \cup { CompressionExample }

NIdleState == [pc |-> "idle", offl |-> 0, nameb |-> << >>, ptrn |-> 0]

\* No unpackDomainName call is under way.
NIdle ==
    /\ nmsg = << >>
    /\ noff = 0
    /\ nst = NIdleState
    /\ nres = Failed("none")

\* unpackDomainName(msg, off) has been entered: lines 80 to 86.
NInit ==
    /\ nmsg \in NameMsgs
    /\ noff \in 0..(Len(nmsg) - 1)
    /\ nst = [pc |-> "loop", offl |-> noff, nameb |-> << >>, ptrn |-> 0]
    /\ nres = Failed("none")

\* The head of the for loop: cb := msg[offl], which panics outside the bytes.
NRead ==
    /\ nst.pc = "loop"
    /\ nst' = [nst EXCEPT !.pc = IF InRange(nmsg, nst.offl) THEN "body" ELSE "panic"]
    /\ UNCHANGED << nmsg, noff, nres, rvars, cvars >>

\* The rest of the loop's body, after cb has been read.  Of nameb the first
\* MaxNameb bytes are kept, and ptrn is kept up to MaxPtrn: a call that
\* returns has neither a longer name nor a use for the exact count.
NStep ==
    /\ nst.pc = "body"
    /\ LET t == NameStep(nmsg, nst.offl, nst.nameb, nst.ptrn)
       IN nst' = [t EXCEPT !.ptrn = IF t.ptrn > MaxPtrn THEN MaxPtrn ELSE t.ptrn,
                           !.nameb = IF Len(t.nameb) > MaxNameb
                                     THEN SubSeq(t.nameb, 1, MaxNameb) ELSE t.nameb]
    /\ UNCHANGED << nmsg, noff, nres, rvars, cvars >>

\* The statements after the loop, and the return.
NReturn ==
    /\ nst.pc = "break"
    /\ nres' = NameResult(noff, nst.offl, nst.nameb, nst.ptrn)
    /\ nst' = [nst EXCEPT !.pc = "done"]
    /\ UNCHANGED << nmsg, noff, rvars, cvars >>

(***************************************************************************)
(* The codec operations, applied to chosen inputs.                         *)
(***************************************************************************)
\* Headers whose fields fit their bit widths, and four that do not.
Headers ==
    [ID : { 0, 1, 258, 65535 }, QR : 0..1, OpCode : { 0, 2, 15 }, AA : 0..1,
     TC : 0..1, RD : 0..1, RA : 0..1, Z : { 0 }, RCode : { 0, 5, 15 },
     QDCount : { 1, 255 }, ANCount : { 0, 2, 65535 }, NSCount : { 0, 256 },
     ARCount : { 0, 4 }]
        \cup { [ZeroHeader EXCEPT !.Z = 1], [ZeroHeader EXCEPT !.OpCode = 16],
               [ZeroHeader EXCEPT !.RCode = 16], [ZeroHeader EXCEPT !.QR = 2] }

\* The names given to Question.Pack: a.b, a.b., a, the root, danillouz.dev, a
\* 63-byte label, names of 255 and of 257 encoded bytes, a 64-byte label, a
\* name with an empty label inside, the empty string, and a label of 192
\* bytes.
QNames ==
    { NameABRel, NameAB, << 97 >>, << Dot >>,
      << 100, 97, 110, 105, 108, 108, 111, 117, 122, 46, 100, 101, 118 >>,
      Rep(97, 63),
      Rep(97, 63) \o << Dot >> \o Rep(98, 63) \o << Dot >> \o Rep(99, 63) \o << Dot >>
          \o Rep(100, 61) \o << Dot >>,
      Rep(97, 63) \o << Dot >> \o Rep(98, 63) \o << Dot >> \o Rep(99, 63) \o << Dot >>
          \o Rep(100, 63),
      Rep(97, 64) \o << Dot, 98 >>,
      << 97, Dot, Dot, 98 >>,
      << >>,
      Rep(97, 192) }

Questions == [QName : QNames, QType : { 1, 16, 255, 65535 }, QClass : { 1, 255 }]

\* The messages given to Msg.Pack have these headers: the one of a query, and
\* the one of a response that declares an answer record.
MsgHeaders ==
    { SetQuery(4660, NameAB, TypeA).Header,
      [SetQuery(4660, NameAB, TypeA).Header EXCEPT !.QR = 1, !.ANCount = 1] }

\* and these questions.
MsgQuestions ==
    [QName : { NameAB, << Dot >>,
               << 100, 97, 110, 105, 108, 108, 111, 117, 122, 46, 100, 101, 118 >> },
     QType : { TypeA, TypeTXT }, QClass : { ClassIN }]

\* The datagrams of the catalog that are well-formed messages.
WellFormed == (1..6) \cup { 9 }

\* The start of a response: its header and the question (a.b., A, IN).  A
\* record put after it is at offset 21.
Preamble == WireResponse(<< >>, << >>, << >>)

\* The records given to RR.Unpack, each one after the preamble: A records
\* with 4, 0, 2 and 5 bytes of RDATA; records whose name is a sequence of
\* labels, a pointer, and labels followed by a pointer; NS and CNAME records
\* with compressed RDATA; SOA and TXT records and one of a type without a
\* named constant; and a record with labels and a pointer for its name that
\* is followed by zero bytes, as it is in a receive buffer.
RRInputs ==
    << WireRR(OwnerPtr, TypeA, << 198, 41, 0, 4 >>),
       WireRR(OwnerPtr, TypeA, << >>),
       WireRR(OwnerPtr, TypeA, << 1, 2 >>),
       WireRR(OwnerPtr, TypeA, << 1, 2, 3, 4, 5 >>),
       WireRR(<< 1, 97, 1, 98, 0 >>, TypeA, << 5, 6, 7, 8 >>),
       WireRR(<< 1, 99, 192, 14 >>, TypeA, << 5, 6, 7, 8 >>),
       RRNS,
       RRCNAME,
       WireRR(<< 1, 99, 192, 14 >>, TypeNS, << 2, 110, 115, 192, 12 >>),
       WireRR(OwnerPtr, TypeSOA, << 0, 0, 0, 0, 0, 1, 0, 0, 0, 2, 0, 0, 0, 3 >>),
       RRTXT,
       WireRR(OwnerPtr, 99, << 7, 7, 7 >>),
       WireRR(<< 1, 99, 192, 14 >>, TypeA, << 5, 6, 7, 8 >>) \o Rep(0, 64) >>

NoOut ==
    [st |-> "none", n |-> 0, h |-> ZeroHeader, q |-> ZeroQuestion, m |-> ZeroMsg,
     r |-> ZeroRR]
NoPacked == [err |-> "nil", b |-> << >>]
NoCut == [i |-> 0, k |-> 0]

\* No codec operation is under way.
CIdle ==
    /\ cmode = "idle"
    /\ cstage = "idle"
    /\ hdr = ZeroHeader
    /\ que = ZeroQuestion
    /\ cut = NoCut
    /\ packed = NoPacked
    /\ unpacked = NoOut

\* A header to pack and unpack, a question to pack and unpack, the first k
\* bytes of a well-formed message to unpack, a message (of a header and a
\* question) to pack and unpack, or a message with a record at offset k to
\* unpack.
CInit ==
    /\ unpacked = NoOut
    /\ \/ /\ cmode = "header" /\ cstage = "start"
          /\ hdr \in Headers
          /\ que = ZeroQuestion /\ cut = NoCut /\ packed = NoPacked
       \/ /\ cmode = "question" /\ cstage = "start"
          /\ que \in Questions
          /\ hdr = ZeroHeader /\ cut = NoCut /\ packed = NoPacked
       \/ /\ cmode = "message" /\ cstage = "packed"
          /\ hdr = ZeroHeader /\ que = ZeroQuestion
          /\ \E i \in WellFormed : \E k \in 0..Len(Catalog[i]) :
                /\ cut = [i |-> i, k |-> k]
                /\ packed = [err |-> "nil", b |-> SubSeq(Catalog[i], 1, k)]
       \/ /\ cmode = "packmsg" /\ cstage = "start"
          /\ hdr \in MsgHeaders /\ que \in MsgQuestions
          /\ cut = NoCut /\ packed = NoPacked
       \/ /\ cmode = "record" /\ cstage = "packed"
          /\ hdr = ZeroHeader /\ que = ZeroQuestion
          /\ \E i \in 1..Len(RRInputs) :
                /\ cut = [i |-> i, k |-> Len(Preamble)]
                /\ packed = [err |-> "nil", b |-> Preamble \o RRInputs[i]]

\* b, err := h.Pack()
CHeaderPack ==
    /\ cmode = "header" /\ cstage = "start"
    /\ packed' = [err |-> "nil", b |-> HeaderPack(hdr)]
    /\ cstage' = "packed"
    /\ UNCHANGED << cmode, hdr, que, cut, unpacked, rvars, nvars >>

\* new(Header).Unpack(b, 0)
CHeaderUnpack ==
    /\ cmode = "header" /\ cstage = "packed"
    /\ LET u == HeaderUnpack(packed.b, 0)
       IN unpacked' = [NoOut EXCEPT !.st = u.st, !.n = u.n, !.h = u.h]
    /\ cstage' = "unpacked"
    /\ UNCHANGED << cmode, hdr, que, cut, packed, rvars, nvars >>

\* b, err := q.Pack()
CQuestionPack ==
    /\ cmode = "question" /\ cstage = "start"
    /\ packed' = QuestionPack(que)
    /\ cstage' = "packed"
    /\ UNCHANGED << cmode, hdr, que, cut, unpacked, rvars, nvars >>

\* new(Question).Unpack(b, 0)
CQuestionUnpack ==
    /\ cmode = "question" /\ cstage = "packed"
    /\ packed.err = "nil"
    /\ LET u == QuestionUnpack(packed.b, 0)
       IN unpacked' = [NoOut EXCEPT !.st = u.st, !.n = u.n, !.q = u.q]
    /\ cstage' = "unpacked"
    /\ UNCHANGED << cmode, hdr, que, cut, packed, rvars, nvars >>

\* b, err := m.Pack()
CMsgPack ==
    /\ cmode = "packmsg" /\ cstage = "start"
    /\ packed' = MsgPack([ZeroMsg EXCEPT !.Header = hdr, !.Question = que])
    /\ cstage' = "packed"
    /\ UNCHANGED << cmode, hdr, que, cut, unpacked, rvars, nvars >>

\* new(Msg).Unpack(b)
CMsgUnpack ==
    /\ cmode \in { "message", "packmsg" } /\ cstage = "packed"
    /\ packed.err = "nil"
    /\ LET u == MsgUnpack(packed.b)
       IN unpacked' = [NoOut EXCEPT !.st = u.st, !.n = u.n, !.m = u.m]
    /\ cstage' = "unpacked"
    /\ UNCHANGED << cmode, hdr, que, cut, packed, rvars, nvars >>

\* new(RR).Unpack(b, off)
CRRUnpack ==
    /\ cmode = "record" /\ cstage = "packed"
    /\ LET u == RRUnpack(packed.b, cut.k)
       IN unpacked' = [NoOut EXCEPT !.st = u.st, !.n = u.n, !.r = u.r]
    /\ cstage' = "unpacked"
    /\ UNCHANGED << cmode, hdr, que, cut, packed, rvars, nvars >>

(***************************************************************************)
(* Specifications: the resolver, the name decoder (also with its loop      *)
(* scheduled fairly: a running loop does take its next pass), the codec.   *)
(***************************************************************************)
Init == RIdle /\ NIdle /\ CIdle

Next ==
    \/ \E name \in ResolveNames, qt \in ResolveTypes : Start(name, qt)
    \/ \E id \in MsgIDs, o \in Outcomes : LoopReturn(id, o)
    \/ \E id \in MsgIDs, o \in Outcomes : LoopContinue(id, o)
    \/ \E id \in MsgIDs, o \in Outcomes : LoopCall(id, o)
    \/ \E id \in MsgIDs, o \in Outcomes : LoopCrash(id, o)

Spec == Init /\ [][Next]_vars

NameInit == RIdle /\ NInit /\ CIdle

NameNext == NRead \/ NStep \/ NReturn

NameSpec == NameInit /\ [][NameNext]_vars

NameFairSpec == NameSpec /\ WF_vars(NameNext)

CodecInit == RIdle /\ NIdle /\ CInit

CodecNext ==
    \/ CHeaderPack
    \/ CHeaderUnpack
    \/ CQuestionPack
    \/ CQuestionUnpack
    \/ CMsgPack
    \/ CMsgUnpack
    \/ CRRUnpack

CodecSpec == CodecInit /\ [][CodecNext]_vars

(***************************************************************************)
(* Properties of the resolver (checked under Spec).                        *)
(***************************************************************************)
\* Entry e of the log got a datagram that resp.Unpack decoded.
Answered(e) == e.out.kind = "resp" /\ e.query # << >> /\ Decoded[e.out.i].st = "ok"

\* The message lookup returned for entry e.
MsgOf(e) == Decoded[e.out.i].m

\* The entries of the log with index i..j all belong to calls nested deeper
\* than depth d.
Deeper(i, j, d) == \A k \in i..j : log[k].depth > d

\* C1: a first response with no answer and a first additional A record with
\* address X, then a response from X with a non-empty answer section: Resolve
\* returns the decoded RDATA of the first answer record after exactly two
\* lookups, the second sent to X with the first one's name and query type.
C1_ReferralWithGlue ==
    ( /\ Len(log) >= 2
      /\ Answered(log[1]) /\ Answered(log[2])
      /\ MsgOf(log[1]).Answer = << >>
      /\ Len(MsgOf(log[1]).Additional) > 0
      /\ MsgOf(log[1]).Additional[1].Type = TypeA
      /\ MsgOf(log[1]).Additional[1].RDLength = 4
      /\ MsgOf(log[2]).Answer # << >> )
    => /\ Len(log) = 2
       /\ result = [kind |-> "ok", an |-> MsgOf(log[2]).Answer[1].RDataUnpacked]
       /\ log[2].server = MsgOf(log[1]).Additional[1].RData
       /\ log[2].name = log[1].name
       /\ log[2].qt = log[1].qt

\* C2: a decoded response with at least one answer record ends the Resolve
\* call that received it: the call returns the decoded RDATA of the first
\* answer record (to main, or to the calling Resolve, which takes it as its
\* server) and issues no further lookup.
C2_AnswerIsTerminal ==
    \A i \in 1..Len(log) :
        (Answered(log[i]) /\ MsgOf(log[i]).Answer # << >>)
        => LET an == MsgOf(log[i]).Answer[1].RDataUnpacked
               d  == log[i].depth
           IN IF d = 1
              THEN i = Len(log) /\ result = [kind |-> "ok", an |-> an]
              ELSE IF i = Len(log)
                   THEN Len(stack) = d - 1 /\ stack[d - 1].server = ParseIP(an)
                   ELSE log[i + 1].depth = d - 1 /\ log[i + 1].server = ParseIP(an)

\* Entry i of the log is a referral without glue: no answer record, no first
\* additional record that is an address, a first authority record that names
\* a server.
NoGlueReferral(i) ==
    /\ Answered(log[i])
    /\ MsgOf(log[i]).Answer = << >>
    /\ getAdditional(MsgOf(log[i])) = Nil
    /\ getAuthority(MsgOf(log[i])) # << >>

\* C3: after a referral without glue the next lookup is the first of a nested
\* resolution of the named server, with type A, from the root server; the
\* outer call's next lookup comes after the nested call has returned its
\* answer, goes to the address the nested call returned and carries the
\* outer call's own name and type.
C3_ReferralWithoutGlue ==
    \A i \in 1..Len(log) :
        NoGlueReferral(i)
        => /\ i < Len(log)
              => /\ log[i + 1].depth = log[i].depth + 1
                 /\ log[i + 1].server = getRootNameServer
                 /\ log[i + 1].name = Normalize(getAuthority(MsgOf(log[i])))
                 /\ log[i + 1].qt = TypeA
           /\ \A j \in (i + 2)..Len(log) :
                 (log[j].depth = log[i].depth /\ Deeper(i + 1, j - 1, log[i].depth))
                 => /\ log[j - 1].depth = log[i].depth + 1
                    /\ Answered(log[j - 1])
                    /\ log[j].server # Nil
                    /\ IPString(log[j].server) = getAnswer(MsgOf(log[j - 1]))
                    /\ log[j].name = log[i].name
                    /\ log[j].qt = log[i].qt

\* C4: a first response whose answer, authority and additional sections are
\* all empty makes Resolve fail with the no-answer error after exactly one
\* lookup.
C4_NoUsableData ==
    ( /\ Len(log) >= 1
      /\ Answered(log[1])
      /\ MsgOf(log[1]).Answer = << >>
      /\ MsgOf(log[1]).Authority = << >>
      /\ MsgOf(log[1]).Additional = << >> )
    => /\ Len(log) = 1
       /\ stack = << >>
       /\ result = [kind |-> "err", err |-> << "noanswer" >>]

\* The case of C4 has happened: one lookup, answered with three empty sections.
C4_Witness ==
    /\ Len(log) = 1
    /\ Answered(log[1])
    /\ MsgOf(log[1]).Answer = << >>
    /\ MsgOf(log[1]).Authority = << >>
    /\ MsgOf(log[1]).Additional = << >>
    /\ result.kind = "err"

(***************************************************************************)
(* Properties of Msg.Unpack on cut messages (checked under CodecSpec).     *)
(***************************************************************************)
\* C5: decoding the first k bytes of a well-formed message never indexes
\* beyond the end of the bytes (no panic), and returns an error when bytes of
\* the message are missing.
C5_BoundsSafety ==
    (cmode = "message" /\ cstage = "unpacked")
    => /\ unpacked.st # "panic"
       /\ (cut.k < Len(Catalog[cut.i]) => unpacked.st = "error")

(***************************************************************************)
(* Properties of unpackDomainName (checked under NameSpec, NameFairSpec).  *)
(***************************************************************************)
\* C6: every call of unpackDomainName comes to an end: its loop is left, by
\* the return or by a failure.
C6_NameDecodingTerminates == <>(nst.pc \in { "done", "panic" })

\* The loop has read a label-start byte with its two top bits set, and a
\* second byte follows it.
AtPointer ==
    /\ nst.pc = "body"
    /\ InRange(nmsg, nst.offl + 1)
    /\ At(nmsg, nst.offl) \div 64 = 3

\* C7: at a pointer the decoder jumps to the 14-bit offset whose high part is
\* the low 6 bits of the first byte and whose low part is the second byte.
C7_PointerValue ==
    [][AtPointer => nst'.offl = (At(nmsg, nst.offl) % 64) * 256 + At(nmsg, nst.offl + 1)]_vars

(***************************************************************************)
(* Properties of the Header and Question codecs (checked under CodecSpec). *)
(***************************************************************************)
\* The fields of h fit their bit widths, and Z is 0.
HeaderValid(h) ==
    /\ h.ID \in 0..65535
    /\ h.QR \in 0..1 /\ h.AA \in 0..1 /\ h.TC \in 0..1 /\ h.RD \in 0..1 /\ h.RA \in 0..1
    /\ h.OpCode \in 0..15 /\ h.RCode \in 0..15
    /\ h.Z = 0
    /\ h.QDCount \in 0..65535 /\ h.ANCount \in 0..65535
    /\ h.NSCount \in 0..65535 /\ h.ARCount \in 0..65535

\* C8: Header.Unpack of the 12 bytes Header.Pack made of a header whose fields
\* fit their widths gives a header equal to it in every field.
C8_HeaderRoundTrip ==
    (cmode = "header" /\ cstage = "unpacked" /\ HeaderValid(hdr))
    => /\ Len(packed.b) = 12
       /\ unpacked.st = "ok"
       /\ unpacked.h = hdr

\* The case of C8 has happened, for a header with every flag set and the
\* largest OpCode, RCode, ID and ANCount.
C8_Witness ==
    /\ cmode = "header" /\ cstage = "unpacked"
    /\ HeaderValid(hdr)
    /\ hdr.QR = 1 /\ hdr.AA = 1 /\ hdr.TC = 1 /\ hdr.RD = 1 /\ hdr.RA = 1
    /\ hdr.OpCode = 15 /\ hdr.RCode = 15
    /\ hdr.ID = 65535 /\ hdr.ANCount = 65535
    /\ unpacked.h = hdr

\* name without its trailing dot, if it has one.
Undotted(name) ==
    IF name # << >> /\ name[Len(name)] = Dot THEN SubSeq(name, 1, Len(name) - 1) ELSE name

\* The labels of name: none for the root name.
LabelsOf(name) == IF Undotted(name) = << >> THEN << >> ELSE Split(Undotted(name))

\* The length of the wire form of name: a length byte for every label, the
\* labels, the zero byte.
EncodedLen(name) == IF Undotted(name) = << >> THEN 1 ELSE Len(Undotted(name)) + 2

\* name is a domain name: not the empty string, labels of 1 to 63 bytes, at
\* most 255 bytes on the wire.
NameValid(name) ==
    /\ name # << >>
    /\ \A i \in 1..Len(LabelsOf(name)) : Len(LabelsOf(name)[i]) \in 1..63
    /\ EncodedLen(name) <= 255

\* C9: Question.Unpack of the bytes Question.Pack made of a valid question
\* gives its QTYPE and QCLASS, and its name in dotted form with the trailing
\* root dot.
C9_QuestionRoundTrip ==
    (cmode = "question" /\ cstage = "unpacked" /\ NameValid(que.QName))
    => /\ unpacked.st = "ok"
       /\ unpacked.q.QType = que.QType
       /\ unpacked.q.QClass = que.QClass
       /\ unpacked.q.QName = Undotted(que.QName) \o << Dot >>

\* name has a label longer than 63 bytes, or is longer than 255 bytes on the
\* wire.
TooLong(name) ==
    \/ \E i \in 1..Len(LabelsOf(name)) : Len(LabelsOf(name)[i]) > 63
    \/ EncodedLen(name) > 255

RECURSIVE LengthBytes(_, _)
\* The length bytes of the name that starts at index i of b.
LengthBytes(b, i) ==
    IF i > Len(b) \/ b[i] = 0 THEN {}
    ELSE { b[i] } \cup LengthBytes(b, i + 1 + b[i])

\* C10: Question.Pack returns an error and no bytes for a name with a label
\* of more than 63 bytes or a wire form of more than 255 bytes, and never
\* emits a length byte greater than 63.
C10_RejectsOverLong ==
    (cmode = "question" /\ cstage # "start")
    => /\ TooLong(que.QName) => (packed.err # "nil" /\ packed.b = << >>)
       /\ \A l \in LengthBytes(packed.b, 1) : l <= 63

(***************************************************************************)
(* Properties of Msg.Unpack on whole messages (checked under CodecSpec).   *)
(***************************************************************************)
\* The record r is the one whose wire form is w (a two-byte name, then type,
\* class, TTL, RDLENGTH and RDATA).
RecordOf(w, r) ==
    /\ r.Type = w[3] * 256 + w[4]
    /\ r.RDLength = w[11] * 256 + w[12]
    /\ r.RData = SubSeq(w, 13, Len(w))

\* The records rrs are the ones with the wire forms ws, in that order.
InWireOrder(rrs, ws) ==
    /\ Len(rrs) = Len(ws)
    /\ \A j \in 1..Len(ws) : RecordOf(ws[j], rrs[j])

\* C11: after a successful Msg.Unpack the sections have as many records as
\* the header counts say, in the order they have on the wire.
C11_SectionLengths ==
    (cmode = "message" /\ cstage = "unpacked" /\ unpacked.st = "ok")
    => /\ Len(unpacked.m.Answer) = unpacked.m.Header.ANCount
       /\ Len(unpacked.m.Authority) = unpacked.m.Header.NSCount
       /\ Len(unpacked.m.Additional) = unpacked.m.Header.ARCount
       /\ InWireOrder(unpacked.m.Answer, Sections[cut.i].an)
       /\ InWireOrder(unpacked.m.Authority, Sections[cut.i].ns)
       /\ InWireOrder(unpacked.m.Additional, Sections[cut.i].ar)

\* The case of C11 has happened for a message with several records in every
\* section.
C11_Witness ==
    /\ cmode = "message" /\ cstage = "unpacked" /\ unpacked.st = "ok"
    /\ unpacked.m.Header.ANCount = 2
    /\ unpacked.m.Header.NSCount = 2
    /\ unpacked.m.Header.ARCount = 3
    /\ Len(unpacked.m.Additional) = 3

(***************************************************************************)
(* Properties of the resolver's lookups (checked under Spec).              *)
(***************************************************************************)
\* The lookup of entry e failed at dial, at the write or at the read.
TransportFailed(e) ==
    \/ e.server = Nil
    \/ e.out.kind \in { "dial", "write", "read" }

\* The lookup of entry e got a datagram that resp.Unpack could not decode.
DecodeFailed(e) ==
    /\ e.server # Nil
    /\ e.out.kind = "resp"
    /\ Decoded[e.out.i].st # "ok"

\* C12: a lookup that fails at dial, write, read or at the decoding of the
\* response is the last lookup, and Resolve has returned an error, from the
\* outermost call too when the lookup was a nested call's.
C12_NoRetry ==
    \A i \in 1..Len(log) :
        (TransportFailed(log[i]) \/ DecodeFailed(log[i]))
        => /\ i = Len(log)
           /\ stack = << >>
           /\ result.kind = "err"

\* How often x occurs among the first n elements of the sequence c.
Count(c, n, x) == Cardinality({ j \in 1..n : c[j] = x })

RECURSIVE ConnEvents(_)
\* What was done with connections in the first i lookups, in order.
ConnEvents(i) == IF i = 0 THEN << >> ELSE ConnEvents(i - 1) \o log[i].conn

\* The lookup of entry e used its connection as a scope: nothing without a
\* dialled connection; else one open, first; at most one write; at most one
\* read, after the write; and one close, last, unless resp.Unpack has not
\* returned.
ScopedConn(e) ==
    LET c == e.conn
        n == Len(c)
    IN IF e.server = Nil \/ e.out.kind = "dial" THEN c = << >>
       ELSE /\ n >= 1 /\ c[1] = "open" /\ Count(c, n, "open") = 1
            /\ Count(c, n, "write") <= 1
            /\ Count(c, n, "read") <= 1
            /\ \A j \in 1..n : c[j] = "read" => (j > 1 /\ c[j - 1] = "write")
            /\ IF e.out.kind = "resp" /\ e.query # << >> /\ Decoded[e.out.i].st = "hang"
               THEN Count(c, n, "close") = 0
               ELSE c[n] = "close" /\ Count(c, n, "close") = 1

\* C13: every lookup whose dial succeeds opens one connection, writes at most
\* once and then reads at most once on it, and closes it on every path on
\* which lookup ends; at no point of a resolution, nested ones included, is
\* more than one connection open.
C13_ScopedConnections ==
    /\ \A i \in 1..Len(log) : ScopedConn(log[i])
    /\ LET ev == ConnEvents(Len(log))
       IN \A n \in 0..Len(ev) : Count(ev, n, "open") - Count(ev, n, "close") \in 0..1

\* The case of C13 has happened: lookups of an outer and of a nested call,
\* the last of which failed at the read.
C13_Witness ==
    /\ Len(log) >= 3
    /\ \E i \in 1..Len(log) : log[i].depth = 2
    /\ log[Len(log)].out.kind = "read"
    /\ log[Len(log)].conn = << "open", "write", "read", "close" >>
    /\ result.kind = "err"

\* C14: the message SetQuery(name, qt) has filled in has QR = 0, the OpCode
\* of a query, RD = 1, QDCount = 1, every other header field but the ID zero,
\* and the question (name, qt, IN).
C14_QueryConstruction ==
    \A i \in 1..Len(log) :
        (log[i].server # Nil /\ log[i].out.kind \notin { "dial", "setquery" })
        => LET h == log[i].qmsg.Header
           IN /\ h.QR = 0 /\ h.OpCode = 0 /\ h.RD = 1 /\ h.QDCount = 1
              /\ h.AA = 0 /\ h.TC = 0 /\ h.RA = 0 /\ h.Z = 0 /\ h.RCode = 0
              /\ h.ANCount = 0 /\ h.NSCount = 0 /\ h.ARCount = 0
              /\ log[i].qmsg.Question
                    = [QName |-> log[i].name, QType |-> log[i].qt, QClass |-> 1]

\* The case of C14 has happened, for a query of type TXT and for the query of
\* a nested call.
C14_Witness ==
    /\ Len(log) >= 2
    /\ log[1].qmsg.Question.QType = 16
    /\ log[1].qmsg.Header.QDCount = 1
    /\ log[2].depth = 2
    /\ log[2].qmsg.Question.QType = 1
    /\ log[2].qmsg.Header.RD = 1

\* The other spelling of name: without its trailing dot, or with one added.
Twin(name) ==
    IF name # << >> /\ name[Len(name)] = Dot
    THEN SubSeq(name, 1, Len(name) - 1)
    ELSE name \o << Dot >>

\* C15: Resolve(n, qt) and Resolve(n + ".", qt) send the same queries.  In
\* every lookup of the outermost call, the call made with the other spelling
\* of the name, at the same server and with the same transport outcome, puts
\* the same bytes on the wire (QNAME, QTYPE and QCLASS among them) and goes
\* on in the same way, so that its next lookup is again at the same server.
C15_NormalizationIdempotent ==
    \A i \in 1..Len(log) :
        log[i].depth = 1
        => LET own  == lookup(log[i].server, log[i].name, log[i].qt, log[i].id, log[i].out)
               twin == lookup(log[i].server, Frame(Twin(call.name), call.qt).name,
                              Frame(Twin(call.name), call.qt).qt, log[i].id, log[i].out)
           IN /\ own.query = log[i].query
              /\ twin.query = own.query
              /\ twin.err = own.err
              /\ ResolveStep(twin) = ResolveStep(own)

\* The case of C15 has happened: Resolve was called with a name without the
\* trailing dot and has sent two queries of its own.
C15_Witness ==
    /\ call.name = NameABRel
    /\ Len(log) >= 2
    /\ log[1].depth = 1 /\ log[2].depth = 1
    /\ log[1].query # << >> /\ log[2].query # << >>
    /\ SubSeq(log[2].query, 13, 17) = << 1, 97, 1, 98, 0 >>

(***************************************************************************)
(* Properties of RR.Unpack (checked under CodecSpec).                      *)
(***************************************************************************)
\* The four bytes b in dotted-decimal form.
DottedDecimal(b) ==
    Decimal(b[1]) \o << Dot >> \o Decimal(b[2]) \o << Dot >> \o Decimal(b[3])
        \o << Dot >> \o Decimal(b[4])

\* C16: the decoded RDATA of a record of TYPE A is the dotted-decimal form of
\* its four RDATA bytes ("198.41.0.4" for 198, 41, 0, 4) when RDLENGTH is 4,
\* and empty when RDLENGTH is anything else.
C16_ARecordRData ==
    (cmode = "record" /\ cstage = "unpacked" /\ unpacked.st = "ok"
        /\ unpacked.r.Type = 1)
    => /\ unpacked.r.RDLength = 4
            => unpacked.r.RDataUnpacked = DottedDecimal(unpacked.r.RData)
       /\ unpacked.r.RData = << 198, 41, 0, 4 >>
            => unpacked.r.RDataUnpacked = << 49, 57, 56, 46, 52, 49, 46, 48, 46, 52 >>
       /\ unpacked.r.RDLength # 4 => unpacked.r.RDataUnpacked = << >>

(***************************************************************************)
(* Properties of name decoding inside Question.Unpack (under CodecSpec).   *)
(***************************************************************************)
\* C17: a name whose first label-start byte has the top two bits 01 or 10
\* (a value in 64..191) is not decoded: decoding fails with an error.
C17_ReservedLabelTypes ==
    (cmode = "question" /\ cstage = "unpacked"
        /\ packed.b # << >> /\ packed.b[1] \in 64..191)
    => unpacked.st = "error"

(***************************************************************************)
(* Properties of the byte counts of Unpack (checked under CodecSpec).      *)
(***************************************************************************)
\* C18: Unpack of the bytes that Header.Pack, Question.Pack or Msg.Pack made
\* returns their number as its byte count: 12 for a header, the length of
\* the encoded name and 4 for a question, the sum of both for a message.
C18_UnpackCountsBytes ==
    (cmode \in { "header", "question", "packmsg" } /\ cstage = "unpacked")
    => /\ unpacked.st = "ok"
       /\ unpacked.n = Len(packed.b)
       /\ cmode = "header" => unpacked.n = 12

(***************************************************************************)
(* Properties of unpackDomainName on the compression example (NameSpec).   *)
(***************************************************************************)
\* C19: with "co" and the zero byte at offset 20, decoding the name made of
\* the label "dan" and a pointer to offset 20 gives "dan.co." and a byte
\* length of 2.
C19_CompressionExample ==
    (nmsg = CompressionExample /\ noff = 24 /\ nst.pc = "done")
    => /\ nres.st = "ok"
       /\ nres.name = << 100, 97, 110, 46, 99, 111, 46 >>
       /\ nres.n = 2

\* The case of C19 has happened: the decode of the name at offset 24 of the
\* example has followed the pointer and returned.
C19_Witness ==
    /\ nmsg = CompressionExample /\ noff = 24
    /\ nst.pc = "done"
    /\ nst.ptrn = 1
    /\ nres.st = "ok"

(***************************************************************************)
(* Properties of Header.Pack (checked under CodecSpec).                    *)
(***************************************************************************)
\* The second 16-bit word of the packed header.
FlagsWord == packed.b[3] * 256 + packed.b[4]

\* The w bits of x from bit i upwards.
Field(x, i, w) == (x \div (2 ^ i)) % (2 ^ w)

\* C20: in the second word Header.Pack writes, the reserved bits 6..4 are 0
\* and every field's position holds the low bits of that field and nothing
\* of another one, whatever values the header's fields have.
C20_ReservedBitsZero ==
    (cmode = "header" /\ cstage # "start")
    => /\ Field(FlagsWord, 4, 3) = 0
       /\ Field(FlagsWord, 15, 1) = hdr.QR % 2
       /\ Field(FlagsWord, 11, 4) = hdr.OpCode % 16
       /\ Field(FlagsWord, 10, 1) = hdr.AA % 2
       /\ Field(FlagsWord, 9, 1) = hdr.TC % 2
       /\ Field(FlagsWord, 8, 1) = hdr.RD % 2
       /\ Field(FlagsWord, 7, 1) = hdr.RA % 2
       /\ Field(FlagsWord, 0, 4) = hdr.RCode % 16

(***************************************************************************)
(* Properties of the byte count of RR.Unpack (checked under CodecSpec).    *)
(***************************************************************************)
RECURSIVE WireNameLen(_, _)
\* The number of bytes the NAME field at Go offset off of b has on the wire:
\* every label with its length byte, and then the zero byte or the two bytes
\* of a pointer.
WireNameLen(b, off) ==
    IF At(b, off) = 0 THEN 1
    ELSE IF At(b, off) >= 192 THEN 2
    ELSE 1 + At(b, off) + WireNameLen(b, off + 1 + At(b, off))

\* The RDLENGTH of the record at Go offset off of b, read after its NAME.
WireRDLength(b, off) ==
    At(b, off + WireNameLen(b, off) + 8) * 256 + At(b, off + WireNameLen(b, off) + 9)

\* C21: RR.Unpack of a record whose NAME is a sequence of labels, a pointer,
\* or labels followed by a pointer returns the wire length of the NAME plus
\* 10 plus RDLENGTH, the distance to the record after it.
C21_RRByteAccounting ==
    (cmode = "record" /\ cstage = "unpacked")
    => /\ unpacked.st = "ok"
       /\ unpacked.n = WireNameLen(packed.b, cut.k) + 10 + WireRDLength(packed.b, cut.k)

(***************************************************************************)
(* Properties of the resolver's choice of its next step (under Spec).      *)
(***************************************************************************)
\* The first record of rrs, if it has one.
FirstOf(rrs) == IF Len(rrs) > 0 THEN << rrs[1] >> ELSE << >>

\* m with only the first record of every section.
FirstOnly(m) ==
    [m EXCEPT !.Answer = FirstOf(m.Answer), !.Authority = FirstOf(m.Authority),
              !.Additional = FirstOf(m.Additional)]

\* What lookup returns when it got the message m.
Got(m) == [err |-> "nil", st |-> "ok", msg |-> m]

\* Entry i of the log has no answer record and a first additional record that
\* is no IP address.
NoFirstGlue(i) ==
    /\ Answered(log[i])
    /\ MsgOf(log[i]).Answer = << >>
    /\ Len(MsgOf(log[i]).Additional) > 0
    /\ ParseIP(MsgOf(log[i]).Additional[1].RDataUnpacked) = Nil

\* Entry i of the log has no answer record, no first additional record that
\* is an IP address, and a first authority record with an empty decoded name.
EmptyFirstAuthority(i) ==
    /\ Answered(log[i])
    /\ MsgOf(log[i]).Answer = << >>
    /\ (Len(MsgOf(log[i]).Additional) > 0
            => ParseIP(MsgOf(log[i]).Additional[1].RDataUnpacked) = Nil)
    /\ Len(MsgOf(log[i]).Authority) > 0
    /\ MsgOf(log[i]).Authority[1].RDataUnpacked = << >>

\* C22: the step Resolve takes after a response is the step it takes after
\* the same response with only the first record of every section (stated of
\* the lookup made last: every lookup is the last one when it is made).
\* Without an answer and with a first additional record that is no address,
\* the next lookup is the nested resolution of the first authority record's
\* name, whatever the later additional records are; with a first authority
\* record whose decoded name is empty, Resolve fails with the no-answer
\* error, whatever the later authority records are.
C22_FirstRecordOnly ==
    /\ (Len(log) > 0 /\ Answered(log[Len(log)]))
          => ResolveStep(Got(MsgOf(log[Len(log)])))
                 = ResolveStep(Got(FirstOnly(MsgOf(log[Len(log)]))))
    /\ \A i \in 1..Len(log) :
          /\ (NoFirstGlue(i) /\ getAuthority(MsgOf(log[i])) # << >> /\ i < Len(log))
                => /\ log[i + 1].depth = log[i].depth + 1
                   /\ log[i + 1].server = getRootNameServer
                   /\ log[i + 1].name = Normalize(MsgOf(log[i]).Authority[1].RDataUnpacked)
          /\ EmptyFirstAuthority(i)
                => /\ i = Len(log)
                   /\ stack = << >>
                   /\ result.kind = "err"
                   /\ result.err[Len(result.err)] = "noanswer"

\* The case of C22 has happened: a response whose second additional record
\* is an address started a nested resolution, and that one got a response
\* whose second authority record names a server and failed.
C22_Witness ==
    /\ Len(log) = 2
    /\ NoFirstGlue(1)
    /\ Len(MsgOf(log[1]).Additional) = 2
    /\ ParseIP(MsgOf(log[1]).Additional[2].RDataUnpacked) # Nil
    /\ log[2].depth = 2
    /\ EmptyFirstAuthority(2)
    /\ Len(MsgOf(log[2]).Authority) = 2
    /\ MsgOf(log[2]).Authority[2].RDataUnpacked # << >>
    /\ result = [kind |-> "err", err |-> << "authority", "noanswer" >>]

(***************************************************************************)
(* Properties of the server address (checked under Spec).                  *)
(***************************************************************************)
\* C23: the server of every Resolve call under way, and the server every
\* lookup was called with, is an IP address that parsed: four bytes, not nil.
C23_ServerIsAddress ==
    /\ \A d \in 1..Len(stack) : stack[d].server # Nil /\ Len(stack[d].server) = 4
    /\ \A i \in 1..Len(log) : log[i].server # Nil /\ Len(log[i].server) = 4

(***************************************************************************)
(* Properties of the names unpackDomainName returns (under NameSpec).      *)
(***************************************************************************)
\* C24: a name unpackDomainName returns is not empty and ends in a dot; the
\* name field that is just the zero byte decodes to ".".
C24_NamesNeverEmpty ==
    nst.pc = "done"
    => /\ nres.name # << >>
       /\ nres.name[Len(nres.name)] = Dot
       /\ At(nmsg, noff) = 0 => nres.name = << Dot >>

(***************************************************************************)
(* Properties of the name Question.Pack writes (checked under CodecSpec).  *)
(***************************************************************************)
RECURSIVE EveryLabel(_, _)
\* A length byte and the label for every non-empty segment of segs, from
\* index i on.
EveryLabel(segs, i) ==
    IF i > Len(segs) THEN << >>
    ELSE (IF segs[i] = << >> THEN << >> ELSE << Len(segs[i]) >> \o segs[i])
             \o EveryLabel(segs, i + 1)

\* C25: Question.Pack writes a length byte and the label for every non-empty
\* segment of QName between dots, in order, segments after an empty one
\* included, then one zero byte, then QTYPE and QCLASS.
C25_EveryLabelEncoded ==
    (cmode = "question" /\ cstage # "start")
    => packed.b = EveryLabel(Split(que.QName), 1) \o << 0 >>
                      \o BigEndian16(que.QType) \o BigEndian16(que.QClass)

(***************************************************************************)
(* Properties of the RDATA RR.Unpack decodes (checked under CodecSpec).    *)
(***************************************************************************)
\* The TYPE of the record at Go offset off of b, read after its NAME.
WireType(b, off) ==
    At(b, off + WireNameLen(b, off)) * 256 + At(b, off + WireNameLen(b, off) + 1)

\* The Go offset of the RDATA of the record at Go offset off of b.
WireRDataOffset(b, off) == off + WireNameLen(b, off) + 10

RECURSIVE WireName(_, _, _)
\* The name that starts at Go offset off of b, in dotted form: its labels,
\* and past a pointer the labels at the pointer's 14-bit offset.  It follows
\* at most hops labels and pointers.
WireName(b, off, hops) ==
    IF hops = 0 \/ ~InRange(b, off) \/ At(b, off) = 0 THEN << >>
    ELSE IF At(b, off) >= 192
         THEN WireName(b, (At(b, off) % 64) * 256 + At(b, off + 1), hops - 1)
         ELSE Slice(b, off + 1, off + 1 + At(b, off)) \o << Dot >>
                  \o WireName(b, off + 1 + At(b, off), hops - 1)

\* C26: the decoded RDATA of a record of TYPE NS or CNAME is the name that
\* starts at the offset of the record's RDATA in the whole message, with the
\* pointers in it followed into the message, and RR.Unpack returns the byte
\* count of the record: NAME, 10 bytes and RDLENGTH.
C26_NameRDataInMessage ==
    (cmode = "record" /\ cstage = "unpacked"
        /\ WireType(packed.b, cut.k) \in { TypeNS, TypeCNAME })
    => /\ unpacked.st = "ok"
       /\ unpacked.r.RDataUnpacked
              = WireName(packed.b, WireRDataOffset(packed.b, cut.k), 8)
       /\ unpacked.n = WireNameLen(packed.b, cut.k) + 10 + WireRDLength(packed.b, cut.k)

(***************************************************************************)
(* Properties of raw RDATA and of the types RR.Unpack does not decode      *)
(* (checked under CodecSpec).                                              *)
(***************************************************************************)
\* The record r has as many raw RDATA bytes as its RDLENGTH says, and no
\* decoded RDATA unless its TYPE is A, NS or CNAME.
RawRData(r) ==
    /\ Len(r.RData) = r.RDLength
    /\ r.Type \notin { TypeA, TypeNS, TypeCNAME } => r.RDataUnpacked = << >>

\* C27: every record RR.Unpack has decoded, alone or as part of a message,
\* has exactly RDLENGTH bytes of raw RDATA, and empty decoded RDATA when its
\* TYPE is not A, NS or CNAME; a record of such a TYPE (SOA, TXT, a code
\* without a name) is decoded, without an error.
C27_RawRData ==
    /\ (cmode = "record" /\ cstage = "unpacked")
       => /\ unpacked.st # "error"
          /\ unpacked.st = "ok" => RawRData(unpacked.r)
          /\ WireType(packed.b, cut.k) \notin { TypeA, TypeNS, TypeCNAME }
                => /\ unpacked.st = "ok"
                   /\ unpacked.r.Type = WireType(packed.b, cut.k)
    /\ (cmode = "message" /\ cstage = "unpacked" /\ unpacked.st = "ok")
       => /\ \A j \in 1..Len(unpacked.m.Answer) : RawRData(unpacked.m.Answer[j])
          /\ \A j \in 1..Len(unpacked.m.Authority) : RawRData(unpacked.m.Authority[j])
          /\ \A j \in 1..Len(unpacked.m.Additional) : RawRData(unpacked.m.Additional[j])

\* The case of C27 has happened: a record of type 99, which has no named
\* constant, was decoded with its three raw bytes.
C27_Witness ==
    /\ cmode = "record" /\ cstage = "unpacked" /\ unpacked.st = "ok"
    /\ unpacked.r.Type = 99
    /\ unpacked.r.RDLength = 3
    /\ unpacked.r.RData = << 7, 7, 7 >>
    /\ unpacked.r.RDataUnpacked = << >>

(***************************************************************************)
(* Properties of the length of a resolution (checked under Spec).          *)
(***************************************************************************)
\* Entry i of the log is a referral: a decoded response without an answer,
\* with an address in its first additional record or a name in its first
\* authority record.
Referral(i) ==
    /\ Answered(log[i])
    /\ getAnswer(MsgOf(log[i])) = << >>
    /\ \/ (Len(MsgOf(log[i]).Additional) > 0
              /\ ParseIP(MsgOf(log[i]).Additional[1].RDataUnpacked) # Nil)
       \/ getAuthority(MsgOf(log[i])) # << >>

\* C28: however many lookups have been made and however deep the calls are
\* nested, a referral does not end the Resolve call that received it: the
\* call is still under way after it, and the next lookup is its own or one of
\* a call nested in it.
C28_NoHopLimit ==
    \A i \in 1..Len(log) :
        Referral(i)
        => /\ i = Len(log) => (result.kind = "running" /\ Len(stack) >= log[i].depth)
           /\ i < Len(log) => log[i + 1].depth >= log[i].depth

\* The case of C28 has happened: as many lookups as the model follows, every
\* one answered with a referral, at the deepest nesting the model follows,
\* and Resolve has not returned.
C28_Witness ==
    /\ Len(log) = MaxLookups
    /\ \A i \in 1..Len(log) : Referral(i)
    /\ \E i \in 1..Len(log) : log[i].depth = MaxDepth
    /\ \E i \in 1..Len(log) : log[i].depth = 1 /\ i > 1
    /\ result.kind = "running"

(***************************************************************************)
(* Properties of what Resolve reads of a response (checked under Spec).    *)
(***************************************************************************)
\* The datagrams i and j of the catalog both decode, to the same answer,
\* authority and additional records (and so the same counts of them).
SameRecords(i, j) ==
    /\ Decoded[i].st = "ok" /\ Decoded[j].st = "ok"
    /\ Decoded[i].m.Answer = Decoded[j].m.Answer
    /\ Decoded[i].m.Authority = Decoded[j].m.Authority
    /\ Decoded[i].m.Additional = Decoded[j].m.Additional

\* The header of datagram j differs from the one of datagram i in a field
\* other than the counts, or its question differs.
OtherHeaderOrQuestion(i, j) ==
    \/ [Decoded[i].m.Header EXCEPT !.ANCount = 0, !.NSCount = 0, !.ARCount = 0]
           # [Decoded[j].m.Header EXCEPT !.ANCount = 0, !.NSCount = 0, !.ARCount = 0]
    \/ Decoded[i].m.Question # Decoded[j].m.Question

\* C29: a lookup that got a response goes on as it would have with any other
\* response of the same records, whatever that one's header ID, QR, OpCode,
\* AA, TC, RA and RCode and its question are: lookup returns no error for
\* either and Resolve takes the same step.  A response with an ID that is
\* not the query's is taken like any other.  (Stated of the lookup made
\* last: every lookup is the last one when it is made.)
C29_HeaderAndQuestionUnchecked ==
    (Len(log) > 0 /\ log[Len(log)].out.kind = "resp" /\ log[Len(log)].query # << >>)
    => LET e   == log[Len(log)]
           own == lookup(e.server, e.name, e.qt, e.id, e.out)
       IN /\ own.st = "ok" => own.err = "nil"
          /\ \A j \in 1..Len(Catalog) :
                SameRecords(e.out.i, j)
                => LET twin == lookup(e.server, e.name, e.qt, e.id, [kind |-> "resp", i |-> j])
                   IN /\ twin.err = own.err
                      /\ ResolveStep(twin) = ResolveStep(own)
          /\ (own.st = "ok" /\ own.msg.Header.ID # e.id /\ own.msg.Answer # << >>
                  /\ e.depth = 1)
                => result.kind = "ok"

\* The case of C29 has happened: Resolve has followed the referral of a
\* response with another ID and another question than the query's to the
\* server its additional record names, and has returned the answer of a
\* response that has another ID, is marked as a query and carries RCode 3.
C29_Witness ==
    /\ Len(log) = 2
    /\ Answered(log[1]) /\ Answered(log[2])
    /\ MsgOf(log[1]).Header.ID = 7 /\ log[1].id = 4660
    /\ MsgOf(log[1]).Question.QType = TypeTXT /\ log[1].qt = TypeA
    /\ \E j \in 1..Len(Catalog) :
          j # log[1].out.i /\ SameRecords(log[1].out.i, j)
              /\ OtherHeaderOrQuestion(log[1].out.i, j)
    /\ log[2].server = << 1, 2, 3, 4 >>
    /\ MsgOf(log[2]).Header.ID = 1 /\ MsgOf(log[2]).Header.QR = 0
    /\ MsgOf(log[2]).Header.RCode = 3
    /\ result = [kind |-> "ok", an |-> << 53, 46, 54, 46, 55, 46, 56 >>]

(***************************************************************************)
(* Properties of the decoding of short datagrams (checked under Spec).     *)
(***************************************************************************)
\* The datagram e is the datagram d with zero bytes after it, as long as the
\* receive buffer.
ZeroPadded(d, e) ==
    /\ Len(d) < BuffSize /\ Len(e) = BuffSize
    /\ SubSeq(e, 1, Len(d)) = d
    /\ \A k \in (Len(d) + 1)..BuffSize : e[k] = 0

\* The datagram d ends with its question.
EndsAfterQuestion(d) == Len(d) = 12 + WireNameLen(d, 12) + 4

\* The number of records the header of the datagram d declares.
DeclaredRecords(d) ==
    (d[7] * 256 + d[8]) + (d[9] * 256 + d[10]) + (d[11] * 256 + d[12])

\* Every record of rrs has the empty name, type 0 and no RDATA.
AllZeroRecords(rrs) == \A k \in 1..Len(rrs) : rrs[k] = ZeroRR

\* C30: lookup decodes a datagram shorter than its buffer as it decodes the
\* same bytes followed by zero bytes up to 512; and a datagram that ends
\* with its question while its header declares records is decoded, without
\* an error, to a message with that many records, each with the empty name,
\* type 0 and no RDATA.
C30_ShortDatagrams ==
    \A i \in 1..Len(log) :
        (log[i].out.kind = "resp" /\ log[i].query # << >>)
        => LET own == lookup(log[i].server, log[i].name, log[i].qt, log[i].id, log[i].out)
               d   == Catalog[log[i].out.i]
           IN /\ \A j \in 1..Len(Catalog) :
                    ZeroPadded(d, Catalog[j])
                    => own = lookup(log[i].server, log[i].name, log[i].qt, log[i].id,
                                    [kind |-> "resp", i |-> j])
              /\ (EndsAfterQuestion(d) /\ DeclaredRecords(d) > 0)
                    => /\ own.err = "nil" /\ own.st = "ok"
                       /\ Len(own.msg.Answer) + Len(own.msg.Authority)
                              + Len(own.msg.Additional) = DeclaredRecords(d)
                       /\ AllZeroRecords(own.msg.Answer)
                       /\ AllZeroRecords(own.msg.Authority)
                       /\ AllZeroRecords(own.msg.Additional)

====
